---- MODULE Spec2Model ----
(***************************************************************************)
(* Model of package xdgdir (app.go): the App facade that joins an          *)
(* application name onto the XDG base directories and searches a list of   *)
(* directories for a file.                                                 *)
(*                                                                         *)
(* Strings are sequences of one-character strings, so that filepath.Join,  *)
(* filepath.Clean, filepath.Base and strings.Split are computed character  *)
(* by character and component by component as the Go library does (Unix    *)
(* separators: "/" for paths, ":" for path lists).                         *)
(***************************************************************************)
EXTENDS Naturals, Sequences, FiniteSets

VARIABLES app, env, fs, result

vars == <<app, env, fs, result>>

-----------------------------------------------------------------------------
(* Strings and the path library                                            *)

Separator == "/"

PathListSeparator == ":"

\* index of the first occurrence of character c in s, 0 when there is none
IndexOf(s, c) ==
  IF \E i \in 1..Len(s) : s[i] = c
  THEN CHOOSE i \in 1..Len(s) : s[i] = c /\ \A j \in 1..(i - 1) : s[j] # c
  ELSE 0

\* strings.Split(s, sep) for a one-character separator; Split("") = <<"">>
RECURSIVE Split(_, _)
Split(s, sep) ==
  LET i == IndexOf(s, sep)
  IN  IF i = 0 THEN <<s>>
      ELSE <<SubSeq(s, 1, i - 1)>> \o Split(SubSeq(s, i + 1, Len(s)), sep)

\* strings.Join(elems, sep)
RECURSIVE Concat(_, _)
Concat(elems, sep) ==
  IF elems = <<>> THEN <<>>
  ELSE IF Len(elems) = 1 THEN elems[1]
  ELSE elems[1] \o <<sep>> \o Concat(Tail(elems), sep)

\* the component loop of filepath.Clean: out is the stack of components kept
\* so far, dotdot the number of leading ".." components that cannot be
\* backtracked over
RECURSIVE CleanComps(_, _, _, _)
CleanComps(comps, out, dotdot, rooted) ==
  IF comps = <<>> THEN out
  ELSE LET c == Head(comps)
           rest == Tail(comps)
       IN  IF c = <<>> \/ c = <<".">>
             THEN CleanComps(rest, out, dotdot, rooted)
           ELSE IF c = <<".", ".">>
             THEN IF Len(out) > dotdot
                    THEN CleanComps(rest, SubSeq(out, 1, Len(out) - 1), dotdot, rooted)
                  ELSE IF ~rooted
                    THEN CleanComps(rest, Append(out, c), Len(out) + 1, rooted)
                  ELSE CleanComps(rest, out, dotdot, rooted)
           ELSE CleanComps(rest, Append(out, c), dotdot, rooted)

\* filepath.Clean
Clean(path) ==
  IF path = <<>> THEN <<".">>
  ELSE LET rooted == path[1] = Separator
           out == CleanComps(Split(path, Separator), <<>>, 0, rooted)
       IN  IF rooted THEN <<Separator>> \o Concat(out, Separator)
           ELSE IF out = <<>> THEN <<".">>
           ELSE Concat(out, Separator)

\* filepath.Join of two elements: empty elements before the first non-empty
\* one are dropped, the rest is joined with the separator and cleaned
Join(dir, name) ==
  IF dir # <<>> THEN Clean(dir \o <<Separator>> \o name)
  ELSE IF name # <<>> THEN Clean(name)
  ELSE <<>>

\* s without its trailing separators
RECURSIVE StripTrailing(_)
StripTrailing(s) ==
  IF s # <<>> /\ s[Len(s)] = Separator
  THEN StripTrailing(SubSeq(s, 1, Len(s) - 1))
  ELSE s

\* filepath.Base
Base(path) ==
  IF path = <<>> THEN <<".">>
  ELSE LET p == StripTrailing(path)
           comps == Split(p, Separator)
           last == comps[Len(comps)]
       IN  IF last = <<>> THEN <<Separator>> ELSE last

-----------------------------------------------------------------------------
(* The process environment and the filesystem (external, read only)        *)

EnvNames ==
  {"XDG_CONFIG_HOME", "XDG_CONFIG_DIRS", "XDG_DATA_HOME", "XDG_DATA_DIRS",
   "XDG_CACHE_HOME", "XDG_RUNTIME_DIR", "HOME", "USERPROFILE"}

\* a variable of the environment: set (possibly to the empty string) or not
Unset == [set |-> FALSE, val |-> <<>>]

SetTo(v) == [set |-> TRUE, val |-> v]

\* os.Getenv: the value, empty when the variable is not present
Getenv(key) == env[key].val

\* os.LookupEnv: reports whether the variable is present
IsSet(key) == env[key].set

\* a path of the filesystem: nothing there, something that cannot be listed
\* (a regular file, an unreadable directory), or a directory with its
\* entries' names in the sorted order ioutil.ReadDir returns them
Absent == [kind |-> "absent", entries |-> <<>>]

Unlistable == [kind |-> "file", entries |-> <<>>]

Dir(names) == [kind |-> "dir", entries |-> names]

Lookup(path) == IF path \in DOMAIN fs THEN fs[path] ELSE Absent

\* os.Stat(dir) returns a nil error
StatOk(dir) == Lookup(dir).kind # "absent"

\* ioutil.ReadDir(dir) returns a nil error
ReadDirOk(dir) == Lookup(dir).kind = "dir"

ReadDir(dir) == Lookup(dir).entries

-----------------------------------------------------------------------------
(* Results: a (string, error) pair                                         *)

Nil == [kind |-> "nil", name |-> <<>>]

EnvironmentNotFound == [kind |-> "EnvironmentNotFound", name |-> <<>>]

\* fmt.Errorf("file %s is not found", name)
FileNotFound(name) == [kind |-> "file is not found", name |-> name]

Ok(path) == [path |-> path, err |-> Nil]

Fail(err) == [path |-> <<>>, err |-> err]

-----------------------------------------------------------------------------
(* Base Directory Resolver: the package-level ConfigDir, DataDir, CacheDir *)
(* and RuntimeDir that app.go calls                                        *)

DotConfig == <<".", "c", "o", "n", "f", "i", "g">>

DotLocalShare == <<".", "l", "o", "c", "a", "l", "/", "s", "h", "a", "r", "e">>

DotCache == <<".", "c", "a", "c", "h", "e">>

\* the process-wide temporary directory (os.TempDir)
TempDir == <<"/", "t", "m", "p">>

\* the home override if set (to a non-empty value), else HOME if set, else
\* USERPROFILE if set, each joined with the category's subpath, else
\* EnvironmentNotFound; a variable is read with os.Getenv, as app.go reads
\* its own, so that one set to the empty string counts as not set
homeBase(override, subpath) ==
  IF Getenv(override) # <<>> THEN Ok(Getenv(override))
  ELSE IF Getenv("HOME") # <<>> THEN Ok(Join(Getenv("HOME"), subpath))
  ELSE IF Getenv("USERPROFILE") # <<>> THEN Ok(Join(Getenv("USERPROFILE"), subpath))
  ELSE Fail(EnvironmentNotFound)

ConfigDir == homeBase("XDG_CONFIG_HOME", DotConfig)

DataDir == homeBase("XDG_DATA_HOME", DotLocalShare)

CacheDir == homeBase("XDG_CACHE_HOME", DotCache)

RuntimeDir ==
  IF Getenv("XDG_RUNTIME_DIR") # <<>> THEN Getenv("XDG_RUNTIME_DIR") ELSE TempDir

-----------------------------------------------------------------------------
(* App Path Facade (app.go)                                                *)

NewApp(name) == [Name |-> name]

\* joinedPath without its error check
joinedPath_ErrorDropped(name, f) == Ok(Join(f.path, name))

\* f is the (string, error) pair the callback returned
joinedPath(name, f) ==
  IF f.err # Nil THEN Fail(f.err)
  ELSE Ok(Join(f.path, name))

App_dirsForSearch(a, first, envName) ==
  LET segs == Split(Getenv(envName), PathListSeparator)
  IN  <<first>> \o [i \in 1..Len(segs) |-> Join(segs[i], a.Name)]

\* the inner loop of findFile over the listing fs of dir: the joined path of
\* the first entry whose base name is name, <<>> when there is none
\* the inner loop looking at the first entry of the listing only
firstMatch_FirstEntryOnly(dir, entries, name) ==
  IF entries # <<>> /\ Base(Head(entries)) = name
  THEN <<Join(dir, Head(entries))>>
  ELSE <<>>

RECURSIVE firstMatch(_, _, _)
firstMatch(dir, entries, name) ==
  IF entries = <<>> THEN <<>>
  ELSE IF Base(Head(entries)) = name THEN <<Join(dir, Head(entries))>>
  ELSE firstMatch(dir, Tail(entries), name)

\* the outer loop of findFile from the directories left to visit; stats is
\* the sequence of directories passed to os.Stat so far
RECURSIVE findFileLoop(_, _, _)
findFileLoop(dirs, name, stats) ==
  IF dirs = <<>>
    THEN [path |-> <<>>, err |-> FileNotFound(name), stats |-> stats]
  ELSE LET dir == Head(dirs)
       IN  IF dir = <<>> THEN findFileLoop(Tail(dirs), name, stats)
           ELSE IF ~StatOk(dir)
             THEN findFileLoop(Tail(dirs), name, Append(stats, dir))
           ELSE IF ~ReadDirOk(dir)
             THEN findFileLoop(Tail(dirs), name, Append(stats, dir))
           ELSE LET m == firstMatch(dir, ReadDir(dir), name)
                IN  IF m # <<>>
                      THEN [path |-> m[1], err |-> Nil, stats |-> Append(stats, dir)]
                    ELSE findFileLoop(Tail(dirs), name, Append(stats, dir))

\* sequence s in reverse order
RECURSIVE Reverse(_)
Reverse(s) == IF s = <<>> THEN <<>> ELSE Append(Reverse(Tail(s)), Head(s))

\* findFile keeping the last match instead of returning at the first
findFile_LastMatchWins(dirs, name) == findFileLoop(Reverse(dirs), name, <<>>)

findFile(dirs, name) == findFileLoop(dirs, name, <<>>)

App_ConfigDir(a) == joinedPath(a.Name, ConfigDir)

\* ConfigFile passing the package-level ConfigDir instead of a.ConfigDir
App_ConfigFile_BaseDir(a, name) == joinedPath(name, ConfigDir)

App_ConfigFile(a, name) == joinedPath(name, App_ConfigDir(a))

\* DataDir resolving the config base
App_DataDir_ConfigBase(a) == joinedPath(a.Name, ConfigDir)

App_DataDir(a) == joinedPath(a.Name, DataDir)

App_DataFile(a, name) == joinedPath(name, App_DataDir(a))

\* CacheDir resolving the config base
App_CacheDir_ConfigBase(a) == joinedPath(a.Name, ConfigDir)

App_CacheDir(a) == joinedPath(a.Name, CacheDir)

App_CacheFile(a, name) == joinedPath(name, App_CacheDir(a))

\* RuntimeDir with the arguments of filepath.Join exchanged
App_RuntimeDir_Swapped(a) == Join(a.Name, RuntimeDir)

App_RuntimeDir(a) == Join(RuntimeDir, a.Name)

App_RuntimeFile(a, name) == Join(App_RuntimeDir(a), name)

\* FindConfigFile returning the error of ConfigDir instead of discarding it
App_FindConfigFile_ErrorKept(a, name) ==
  LET d == App_ConfigDir(a)
      dirs == App_dirsForSearch(a, d.path, "XDG_CONFIG_DIRS")
      f == findFile(dirs, name)
  IN  IF d.err # Nil
        THEN [path |-> <<>>, err |-> d.err, dirs |-> dirs, stats |-> <<>>]
      ELSE IF f.err # Nil
        THEN [path |-> <<>>, err |-> f.err, dirs |-> dirs, stats |-> f.stats]
      ELSE [path |-> f.path, err |-> Nil, dirs |-> dirs, stats |-> f.stats]

\* the (string, error) pair returned, with the list built by dirsForSearch
\* and the directories findFile passed to os.Stat
App_FindConfigFile(a, name) ==
  LET d == App_ConfigDir(a).path
      dirs == App_dirsForSearch(a, d, "XDG_CONFIG_DIRS")
      f == findFile(dirs, name)
  IN  IF f.err # Nil
        THEN [path |-> <<>>, err |-> f.err, dirs |-> dirs, stats |-> f.stats]
      ELSE [path |-> f.path, err |-> Nil, dirs |-> dirs, stats |-> f.stats]

App_FindDataFile(a, name) ==
  LET d == App_DataDir(a).path
      dirs == App_dirsForSearch(a, d, "XDG_DATA_DIRS")
      f == findFile(dirs, name)
  IN  IF f.err # Nil
        THEN [path |-> <<>>, err |-> f.err, dirs |-> dirs, stats |-> f.stats]
      ELSE [path |-> f.path, err |-> Nil, dirs |-> dirs, stats |-> f.stats]

-----------------------------------------------------------------------------
(* Inputs                                                                  *)

\* the most variables the environment holds at once
MaxSetVars == 3

AppNames == {<<"a">>, <<"b", "/">>}

FileNames == {<<"s">>, <<"S">>}

HomeVars == {"XDG_CONFIG_HOME", "XDG_DATA_HOME", "XDG_CACHE_HOME"}

DirsVars == {"XDG_CONFIG_DIRS", "XDG_DATA_DIRS"}

\* the values a variable is set to
EnvValues(key) ==
  IF key \in HomeVars THEN {<<>>, <<"/", "x">>}
  ELSE IF key = "HOME" THEN {<<>>, <<"/", "h">>}
  ELSE IF key = "USERPROFILE" THEN {<<>>, <<"/", "u">>}
  ELSE IF key = "XDG_RUNTIME_DIR" THEN {<<>>, <<"/", "r", "/">>}
  ELSE {<<>>, <<"/", "e">>, <<"/", "e", ":", "/", "f">>, <<":", "/", "f">>}

\* the directories of the filesystems below, for application name n
XDir(n) == Join(<<"/", "x">>, n)

HomeConfigDir(n) == Join(Join(<<"/", "h">>, DotConfig), n)

HomeDataDir(n) == Join(Join(<<"/", "h">>, DotLocalShare), n)

EDir(n) == Join(<<"/", "e">>, n)

FDir(n) == Join(<<"/", "f">>, n)

RelDir(n) == Join(<<>>, n)

FsPaths(n) == {XDir(n), HomeConfigDir(n), HomeDataDir(n), EDir(n), FDir(n), RelDir(n)}

\* the file is in the primary directories and in the search directories
FsEverywhere(n) ==
  [p \in FsPaths(n) |->
     IF p = RelDir(n) THEN Absent
     ELSE IF p = FDir(n) THEN Dir(<<<<"S">>, <<"s">>>>)
     ELSE Dir(<<<<"s">>>>)]

\* the file is only in the second search directory and in the directory named
\* by the application name alone; the first search directory is a regular file
FsLater(n) ==
  [p \in FsPaths(n) |->
     IF p = RelDir(n) THEN Dir(<<<<"s">>>>)
     ELSE IF p = FDir(n) THEN Dir(<<<<"S">>, <<"s">>>>)
     ELSE IF p = EDir(n) \/ p = HomeDataDir(n) THEN Unlistable
     ELSE IF p = HomeConfigDir(n) THEN Dir(<<<<"S">>>>)
     ELSE Absent]

\* the file is nowhere
FsNowhere(n) ==
  [p \in FsPaths(n) |->
     IF p = EDir(n) THEN Dir(<<>>)
     ELSE IF p = HomeConfigDir(n) THEN Dir(<<<<"S">>>>)
     ELSE Absent]

Filesystems(n) == {FsEverywhere(n), FsLater(n), FsNowhere(n)}

-----------------------------------------------------------------------------
(* The state machine: the caller changes the environment between calls and *)
(* calls the accessors; result is the value the last call returned, until  *)
(* the caller has taken it                                                 *)

NoCall ==
  [op |-> "none", arg |-> <<>>, path |-> <<>>, err |-> Nil,
   dirs |-> <<>>, stats |-> <<>>]

\* the result of an accessor that does not search
Returned(op, arg, r) ==
  [op |-> op, arg |-> arg, path |-> r.path, err |-> r.err,
   dirs |-> <<>>, stats |-> <<>>]

\* the result of a Find accessor
Found(op, arg, r) ==
  [op |-> op, arg |-> arg, path |-> r.path, err |-> r.err,
   dirs |-> r.dirs, stats |-> r.stats]

Init ==
  /\ \E n \in AppNames :
       /\ app = NewApp(n)
       /\ fs \in Filesystems(n)
  /\ env = [k \in EnvNames |-> Unset]
  /\ result = NoCall

SetVars == {k \in EnvNames : IsSet(k)}

Setenv(key, value) ==
  /\ result = NoCall
  /\ IsSet(key) \/ Cardinality(SetVars) < MaxSetVars
  /\ env' = [env EXCEPT ![key] = SetTo(value)]
  /\ UNCHANGED <<app, fs, result>>

Unsetenv(key) ==
  /\ result = NoCall
  /\ IsSet(key)
  /\ env' = [env EXCEPT ![key] = Unset]
  /\ UNCHANGED <<app, fs, result>>

CallConfigDir ==
  /\ result' = Returned("ConfigDir", <<>>, App_ConfigDir(app))
  /\ UNCHANGED <<app, env, fs>>

CallConfigFile(name) ==
  /\ result' = Returned("ConfigFile", name, App_ConfigFile(app, name))
  /\ UNCHANGED <<app, env, fs>>

CallFindConfigFile(name) ==
  /\ result' = Found("FindConfigFile", name, App_FindConfigFile(app, name))
  /\ UNCHANGED <<app, env, fs>>

CallDataDir ==
  /\ result' = Returned("DataDir", <<>>, App_DataDir(app))
  /\ UNCHANGED <<app, env, fs>>

CallDataFile(name) ==
  /\ result' = Returned("DataFile", name, App_DataFile(app, name))
  /\ UNCHANGED <<app, env, fs>>

CallFindDataFile(name) ==
  /\ result' = Found("FindDataFile", name, App_FindDataFile(app, name))
  /\ UNCHANGED <<app, env, fs>>

\* CacheDir exporting the directory it resolved as XDG_CACHE_HOME
CallCacheDir_ExportsEnv ==
  /\ result' = Returned("CacheDir", <<>>, App_CacheDir(app))
  /\ env' = [env EXCEPT !["XDG_CACHE_HOME"] = SetTo(App_CacheDir(app).path)]
  /\ UNCHANGED <<app, fs>>

CallCacheDir ==
  /\ result' = Returned("CacheDir", <<>>, App_CacheDir(app))
  /\ UNCHANGED <<app, env, fs>>

CallCacheFile(name) ==
  /\ result' = Returned("CacheFile", name, App_CacheFile(app, name))
  /\ UNCHANGED <<app, env, fs>>

CallRuntimeDir ==
  /\ result' = Returned("RuntimeDir", <<>>, Ok(App_RuntimeDir(app)))
  /\ UNCHANGED <<app, env, fs>>

CallRuntimeFile(name) ==
  /\ result' = Returned("RuntimeFile", name, Ok(App_RuntimeFile(app, name)))
  /\ UNCHANGED <<app, env, fs>>

\* the caller takes the returned value
TakeResult ==
  /\ result # NoCall
  /\ result' = NoCall
  /\ UNCHANGED <<app, env, fs>>

Next ==
  \/ \E key \in EnvNames : \E value \in EnvValues(key) : Setenv(key, value)
  \/ \E key \in EnvNames : Unsetenv(key)
  \/ CallConfigDir
  \/ \E name \in FileNames : CallConfigFile(name)
  \/ \E name \in FileNames : CallFindConfigFile(name)
  \/ CallDataDir
  \/ \E name \in FileNames : CallDataFile(name)
  \/ \E name \in FileNames : CallFindDataFile(name)
  \/ CallCacheDir
  \/ \E name \in FileNames : CallCacheFile(name)
  \/ CallRuntimeDir
  \/ \E name \in FileNames : CallRuntimeFile(name)
  \/ TakeResult

Spec == Init /\ [][Next]_vars

-----------------------------------------------------------------------------
(* Properties.  While result holds a returned value the environment is the *)
(* one the call read: the caller changes it only after taking the result.  *)

Categories == {"Config", "Data", "Cache"}

Override(c) ==
  IF c = "Config" THEN "XDG_CONFIG_HOME"
  ELSE IF c = "Data" THEN "XDG_DATA_HOME"
  ELSE "XDG_CACHE_HOME"

Subpath(c) ==
  IF c = "Config" THEN DotConfig
  ELSE IF c = "Data" THEN DotLocalShare
  ELSE DotCache

DirOp(c) ==
  IF c = "Config" THEN "ConfigDir" ELSE IF c = "Data" THEN "DataDir" ELSE "CacheDir"

FileOp(c) ==
  IF c = "Config" THEN "ConfigFile" ELSE IF c = "Data" THEN "DataFile" ELSE "CacheFile"

\* the directory accessor of category c on the application
Directory(c) ==
  IF c = "Config" THEN App_ConfigDir(app)
  ELSE IF c = "Data" THEN App_DataDir(app)
  ELSE App_CacheDir(app)

\* C1: with XDG_<C>_HOME set to a non-empty value v, ConfigDir / DataDir /
\* CacheDir succeed and return v joined with the application name, whatever
\* HOME and USERPROFILE are.
C1_OverrideWins ==
  \A c \in Categories :
    (result.op = DirOp(c) /\ Getenv(Override(c)) # <<>>)
      => /\ result.err = Nil
         /\ result.path = Join(Getenv(Override(c)), app.Name)

C1_Witness ==
  /\ result.op = "CacheDir"
  /\ Getenv("XDG_CACHE_HOME") = <<"/", "x">>
  /\ Getenv("HOME") = <<"/", "h">>
  /\ Getenv("USERPROFILE") = <<"/", "u">>
  /\ app.Name = <<"a">>
  /\ result.path = <<"/", "x", "/", "a">>

\* C2: with XDG_<C>_HOME unset or empty, the directory accessor returns HOME
\* joined with the category's subpath joined with the application name when
\* HOME is set, also when USERPROFILE is set too; it returns USERPROFILE
\* joined with the subpath and the name only when HOME is not set.
C2_HomeThenUserProfile ==
  \A c \in Categories :
    (result.op = DirOp(c) /\ Getenv(Override(c)) = <<>>)
      => /\ Getenv("HOME") # <<>>
              => /\ result.err = Nil
                 /\ result.path = Join(Join(Getenv("HOME"), Subpath(c)), app.Name)
         /\ (Getenv("HOME") = <<>> /\ Getenv("USERPROFILE") # <<>>)
              => /\ result.err = Nil
                 /\ result.path =
                      Join(Join(Getenv("USERPROFILE"), Subpath(c)), app.Name)

C2_Witness ==
  /\ result.op = "DataDir"
  /\ IsSet("XDG_DATA_HOME")
  /\ Getenv("XDG_DATA_HOME") = <<>>
  /\ Getenv("HOME") = <<"/", "h">>
  /\ Getenv("USERPROFILE") = <<"/", "u">>
  /\ app.Name = <<"a">>
  /\ result.path = <<"/", "h", "/">> \o DotLocalShare \o <<"/", "a">>

\* C3: a directory accessor fails with EnvironmentNotFound exactly when none
\* of XDG_<C>_HOME, HOME and USERPROFILE is set; it then returns the empty
\* path, and it fails with no other error.
C3_EnvironmentNotFound ==
  \A c \in Categories :
    result.op = DirOp(c)
      => /\ result.err = EnvironmentNotFound
              <=> /\ Getenv(Override(c)) = <<>>
                  /\ Getenv("HOME") = <<>>
                  /\ Getenv("USERPROFILE") = <<>>
         /\ result.err # Nil
              => result.err = EnvironmentNotFound /\ result.path = <<>>

C3_Witness ==
  /\ result.op = "ConfigDir"
  /\ result.err = EnvironmentNotFound
  /\ result.path = <<>>
  /\ IsSet("XDG_CONFIG_HOME")
  /\ IsSet("HOME")
  /\ ~IsSet("USERPROFILE")

\* the runtime base the claim describes
RuntimeBase ==
  IF Getenv("XDG_RUNTIME_DIR") # <<>> THEN Getenv("XDG_RUNTIME_DIR") ELSE TempDir

\* C4: RuntimeDir and RuntimeFile never fail; RuntimeDir returns
\* XDG_RUNTIME_DIR joined with the application name when that variable is set
\* and non-empty, else the temporary directory joined with the name;
\* RuntimeFile returns RuntimeDir joined with the file name.
C4_RuntimeNeverFails ==
  /\ result.op = "RuntimeDir"
       => result.err = Nil /\ result.path = Join(RuntimeBase, app.Name)
  /\ result.op = "RuntimeFile"
       => /\ result.err = Nil
          /\ result.path = Join(Join(RuntimeBase, app.Name), result.arg)

C4_Witness ==
  /\ result.op = "RuntimeFile"
  /\ Getenv("XDG_RUNTIME_DIR") = <<"/", "r", "/">>
  /\ ~IsSet("HOME")
  /\ ~IsSet("USERPROFILE")
  /\ app.Name = <<"a">>
  /\ result.path = <<"/", "r", "/", "a", "/", "s">>

\* C5: ConfigFile / DataFile / CacheFile return the directory accessor's
\* result joined with the file name when the directory accessor succeeds,
\* and its error with an empty path when it fails; they read no directory.
C5_FileIsDirJoinedName ==
  \A c \in Categories :
    result.op = FileOp(c)
      => /\ Directory(c).err = Nil
              => /\ result.err = Nil
                 /\ result.path = Join(Directory(c).path, result.arg)
         /\ Directory(c).err # Nil
              => result.err = Directory(c).err /\ result.path = <<>>
         /\ result.stats = <<>>

C5_Witness ==
  /\ result.op = "ConfigFile"
  /\ result.err = Nil
  /\ app.Name = <<"a">>
  /\ result.path = <<"/", "h", "/">> \o DotConfig \o <<"/", "a", "/", "s">>
  /\ Lookup(Directory("Config").path).kind = "dir"
  /\ \A i \in 1..Len(ReadDir(Directory("Config").path)) :
       ReadDir(Directory("Config").path)[i] # <<"s">>

IsFind == result.op \in {"FindConfigFile", "FindDataFile"}

\* the directory accessor's path and the search-dirs variable of a Find call
Primary == IF result.op = "FindConfigFile" THEN Directory("Config") ELSE Directory("Data")

SearchVar == IF result.op = "FindConfigFile" THEN "XDG_CONFIG_DIRS" ELSE "XDG_DATA_DIRS"

Segments == Split(Getenv(SearchVar), PathListSeparator)

\* dir can be listed and has an entry named exactly name
Contains(dir, name) ==
  /\ dir # <<>>
  /\ Lookup(dir).kind = "dir"
  /\ \E i \in 1..Len(Lookup(dir).entries) : Lookup(dir).entries[i] = name

\* the non-empty entries of a list of directories
NonEmpty(dirs) == SelectSeq(dirs, LAMBDA d : d # <<>>)

C7_NotFoundIffNoMatch ==
  IsFind =>
    /\ (result.err = FileNotFound(result.arg) /\ result.path = <<>>)
         <=> ~\E i \in 1..Len(result.dirs) : Contains(result.dirs[i], result.arg)
    /\ (\E i \in 1..Len(result.dirs) : Contains(result.dirs[i], result.arg))
         => result.err = Nil /\ result.path # <<>>

\* not found although a directory of the list has the name in another case
C7_Witness ==
  /\ result.op = "FindConfigFile"
  /\ result.arg = <<"s">>
  /\ result.err = FileNotFound(<<"s">>)
  /\ result.path = <<>>
  /\ \E i \in 1..Len(result.dirs) : Contains(result.dirs[i], <<"S">>)

\* dir is an entry findFile passes over: empty, missing or not listable
Unusable(dir) == dir = <<>> \/ Lookup(dir).kind # "dir"

\* C8: an unusable directory never aborts a Find call: an unresolvable
\* primary directory is the empty entry and is not looked at, a missing or
\* unlistable directory is passed over, a file in a later directory is still
\* returned, and the error is never EnvironmentNotFound.
C8_UnusableDirsSkipped ==
  IsFind =>
    /\ result.err # EnvironmentNotFound
    /\ Primary.err # Nil => result.dirs[1] = <<>>
    /\ \A i \in 1..Len(result.stats) : result.stats[i] # <<>>
    /\ \A i \in 1..Len(result.dirs) :
         (/\ Contains(result.dirs[i], result.arg)
          /\ \A j \in 1..(i - 1) : Unusable(result.dirs[j]))
           => /\ result.err = Nil
              /\ result.path = Join(result.dirs[i], result.arg)
              /\ result.stats = NonEmpty(SubSeq(result.dirs, 1, i))

\* the primary directory is not resolvable, the first search directory is a
\* regular file and the second has the file
C8_Witness ==
  /\ result.op = "FindConfigFile"
  /\ Primary.err = EnvironmentNotFound
  /\ app.Name = <<"a">>
  /\ result.dirs = <<<<>>, EDir(app.Name), FDir(app.Name)>>
  /\ Lookup(EDir(app.Name)).kind = "file"
  /\ result.err = Nil
  /\ result.path = Join(FDir(app.Name), result.arg)

\* what the accessor op returns for a new App of the same name
FreshResult(op, arg) ==
  LET a == NewApp(app.Name)
  IN  IF op = "ConfigDir" THEN Returned(op, arg, App_ConfigDir(a))
      ELSE IF op = "ConfigFile" THEN Returned(op, arg, App_ConfigFile(a, arg))
      ELSE IF op = "FindConfigFile" THEN Found(op, arg, App_FindConfigFile(a, arg))
      ELSE IF op = "DataDir" THEN Returned(op, arg, App_DataDir(a))
      ELSE IF op = "DataFile" THEN Returned(op, arg, App_DataFile(a, arg))
      ELSE IF op = "FindDataFile" THEN Found(op, arg, App_FindDataFile(a, arg))
      ELSE IF op = "CacheDir" THEN Returned(op, arg, App_CacheDir(a))
      ELSE IF op = "CacheFile" THEN Returned(op, arg, App_CacheFile(a, arg))
      ELSE IF op = "RuntimeDir" THEN Returned(op, arg, Ok(App_RuntimeDir(a)))
      ELSE Returned(op, arg, Ok(App_RuntimeFile(a, arg)))

\* what the accessor that returned result returns for a new App of the name
Fresh == FreshResult(result.op, result.arg)

ClaimedSearchList ==
  LET segs == SelectSeq(Segments, LAMBDA s : s # <<>>)
  IN  <<Primary.path>> \o [i \in 1..Len(segs) |-> Join(segs[i], app.Name)]

\* C10: the list of a Find call is the primary directory followed by one
\* entry per non-empty segment of the search-dirs variable, in order, and
\* every directory the call looks at is one of these.
C10_EmptySegmentsSkipped ==
  IsFind =>
    /\ result.dirs = ClaimedSearchList
    /\ \A i \in 1..Len(result.stats) :
         \E j \in 1..Len(ClaimedSearchList) : result.stats[i] = ClaimedSearchList[j]

====
